---- MODULE Spec2Model ----
(***************************************************************************)
(* Zip-to-sandboxed-preview pipeline: the run orchestrator (routes/runs),  *)
(* the in-memory RunStore, the WorkerManager and its Workers, the          *)
(* ZipProcessor, and the preview gateway (routes/preview).                 *)
(*                                                                         *)
(* One action is one event-loop task of the Node.js process: an HTTP       *)
(* handler, a timer callback or an I/O completion, together with every     *)
(* promise continuation (microtask) it releases before the next task runs. *)
(***************************************************************************)
EXTENDS Integers, Sequences, FiniteSets, TLC

\* ---------------------------------------------------------------- bounds

\* Number of uploads (runs) a behaviour submits.  Run ids are uuids; the
\* model numbers them 1..MaxRuns in order of submission.
MaxRuns == 2

\* Length of one clock tick in milliseconds.  Date.now() is modelled in whole
\* ticks; every timer delay of the program is shorter than one tick, so a
\* pending timer may fire within the tick in which it was armed.
MsPerTick == 20000

\* Last value of the clock.
MaxNow == 2

\* Number of direct calls made on a RunStore in one behaviour.
MaxCalls == 4

\* Number of WorkerManager.start calls made directly in one behaviour.
MaxStarts == 2

RunIds == 1..MaxRuns

\* ------------------------------------------------------- program constants

FirstPort == 8000
ReadyTimeout == 30000
PollInterval == 100
StartTime == 1000
MaxFiles == 1000
MaxSize == 52428800
MaxDepth == 20

\* JavaScript null.  undefined is modelled by the absence of the field.
Null == "<null>"

\* An object spread {...a, ...b}.
Merge(a, b) ==
  [k \in (DOMAIN a) \cup (DOMAIN b) |-> IF k \in DOMAIN b THEN b[k] ELSE a[k]]

Has(obj, k) == k \in DOMAIN obj

\* ---------------------------------------------------------------- RunStore
\* A store is the Map `runs`: a function from the stored ids to run objects.

NewStore == << >>

\* get(id): the run as a one-element set, the empty set for undefined.
StoreGet(store, id) == IF id \in DOMAIN store THEN {store[id]} ELSE {}

StoreHas(store, id) == id \in DOMAIN store

StoreCreate(store, run) ==
  [k \in (DOMAIN store) \cup {run.id} |-> IF k = run.id THEN run ELSE store[k]]

\* An update that stores the merged fields whether or not the id exists.
StoreUpdateUpsert(store, id, updates, t) ==
  [k \in (DOMAIN store) \cup {id} |->
     IF k = id
     THEN Merge(Merge(IF id \in DOMAIN store THEN store[id] ELSE [id |-> id], updates),
                [updatedAt |-> t])
     ELSE store[k]]

\* An update in which the fields already stored win over the new ones.
StoreUpdateKeepOld(store, id, updates, t) ==
  IF id \in DOMAIN store
  THEN [store EXCEPT ![id] = Merge(Merge(updates, store[id]), [updatedAt |-> t])]
  ELSE store

\* update(id, updates): the store afterwards.
StoreUpdate(store, id, updates, t) ==
  IF id \in DOMAIN store
  THEN [store EXCEPT ![id] = Merge(Merge(store[id], updates), [updatedAt |-> t])]
  ELSE store

\* An update that hands back the stamped fields for an id it does not hold.
StoreUpdateResultEcho(store, id, updates, t) ==
  IF id \in DOMAIN store
  THEN {Merge(Merge(store[id], updates), [updatedAt |-> t])}
  ELSE {Merge(updates, [updatedAt |-> t])}

\* update(id, updates): the value returned, as a one-element set; the empty
\* set for null.
StoreUpdateResult(store, id, updates, t) ==
  IF id \in DOMAIN store
  THEN {Merge(Merge(store[id], updates), [updatedAt |-> t])}
  ELSE {}

StoreDelete(store, id) == [k \in (DOMAIN store) \ {id} |-> store[k]]

\* new Date(iso).getTime(): a timestamp taken at tick t reads as t * MsPerTick
\* milliseconds.
GetTime(t) == t * MsPerTick

\* A sweep that also removes the runs that are exactly maxAge old.
StoreCleanupIdsInclusive(store, maxAge, t) ==
  {id \in DOMAIN store :
     Has(store[id], "createdAt") /\ GetTime(store[id].createdAt) <= GetTime(t) - maxAge}

\* cleanup(maxAge): the ids collected in toDelete.  A run without createdAt
\* has runTime NaN, which is below no cutoff.
StoreCleanupIds(store, maxAge, t) ==
  {id \in DOMAIN store :
     Has(store[id], "createdAt") /\ GetTime(store[id].createdAt) < GetTime(t) - maxAge}

\* cleanup(maxAge): the store afterwards.
StoreCleanup(store, maxAge, t) ==
  [k \in (DOMAIN store) \ StoreCleanupIds(store, maxAge, t) |-> store[k]]

\* cleanup(maxAge): the value returned.
StoreCleanupResult(store, maxAge, t) == Cardinality(StoreCleanupIds(store, maxAge, t))

\* ------------------------------------------------------------ ZipProcessor
\* A path is the sequence of its '/'-separated segments.  An archive has
\* count, entries, manifest and corrupt: entries.length, the entry names in
\* archive order, the package.json ([valid |-> FALSE] when it does not parse),
\* and whether AdmZip cannot read the file at all.

HtmlNames == {"index.html", "about.html"}
IndexNames == {"index.html"}
SkipDirs == {"node_modules", ".git", "__pycache__", ".pytest_cache"}
DotDotSegments == {"..", "a..b"}

ExtractPath(runId) == <<"temp", "extracted-", runId>>

\* entryName.includes('..')
IncludesDotDot(p) == \E i \in 1..Len(p) : p[i] \in DotDotSegments

\* path.isAbsolute(entryName): the name starts with '/'.
IsAbsolute(p) == Len(p) > 0 /\ p[1] = ""

\* The first entry the validation loop rejects, 0 when it rejects none.
FirstBadEntry(entries) ==
  LET bad == {i \in 1..Len(entries) :
                \/ IncludesDotDot(entries[i])
                \/ IsAbsolute(entries[i])
                \/ Len(entries[i]) > MaxDepth}
  IN IF bad = {} THEN 0 ELSE CHOOSE i \in bad : \A j \in bad : i <= j

\* No error thrown.
NoError == << >>

\* A validation that checks the entry count only.
ValidateArchiveCountOnly(a) ==
  IF a.corrupt THEN <<"Invalid or unsupported zip format">>
  ELSE IF a.count > MaxFiles THEN <<"ZIP contains too many files", a.count, MaxFiles>>
  ELSE NoError

\* The synchronous checks of extract(): the message of the error thrown, or
\* NoError.
ValidateArchive(a) ==
  IF a.corrupt THEN <<"Invalid or unsupported zip format">>
  ELSE IF a.count > MaxFiles THEN <<"ZIP contains too many files", a.count, MaxFiles>>
  ELSE LET i == FirstBadEntry(a.entries) IN
       IF i = 0 THEN NoError
       ELSE IF IncludesDotDot(a.entries[i]) \/ IsAbsolute(a.entries[i])
            THEN <<"Unsafe file path in ZIP", a.entries[i]>>
            ELSE <<"File path too deep", a.entries[i]>>

\* zip.extractAllTo(extractPath, true): where the file of an entry lands, as
\* the segments of the resolved path with "<extractPath>" standing for the
\* destination root.  A ".." segment steps up, a leading '/' restarts at the
\* filesystem root "".
RECURSIVE Resolve(_, _)
Resolve(at, rest) ==
  IF rest = << >> THEN at
  ELSE IF Head(rest) = ".."
    THEN Resolve(IF at = << >> THEN at ELSE SubSeq(at, 1, Len(at) - 1), Tail(rest))
  ELSE IF Head(rest) = "" /\ Len(rest) > 1 /\ at = <<"<extractPath>">>
    THEN Resolve(<<"">>, Tail(rest))
  ELSE Resolve(Append(at, Head(rest)), Tail(rest))

\* The files extractAllTo writes for the archive a.
ExtractAllTo(a) == {Resolve(<<"<extractPath>">>, a.entries[i]) : i \in 1..Len(a.entries)}

\* getFileList: the files of the tree, without those below a skipped directory.
Skipped(p) == \E i \in 1..(Len(p) - 1) : p[i] \in SkipDirs
GetFileList(entries) == SelectSeq(entries, LAMBDA p : ~Skipped(p))

SeqHas(s, x) == \E i \in 1..Len(s) : s[i] = x
EndsWithHtml(p) == Len(p) > 0 /\ p[Len(p)] \in HtmlNames
EndsWithIndex(p) == Len(p) > 0 /\ p[Len(p)] \in IndexNames
FindHtml(s) == Head(SelectSeq(s, EndsWithHtml))

\* readPackageJson: an unreadable manifest degrades to {}.
EmptyManifest == [scripts |-> << >>, dependencies |-> {}, devDependencies |-> {}]
ReadPackageJson(manifest) ==
  IF manifest.valid
  THEN [scripts |-> manifest.scripts, dependencies |-> manifest.dependencies,
        devDependencies |-> manifest.devDependencies]
  ELSE EmptyManifest

Script(scripts, name) == IF name \in DOMAIN scripts THEN scripts[name] ELSE Null
OrElse(a, b) == IF a # Null THEN a ELSE b

\* A Node.js analysis without fallback start commands.
AnalyzeNodeProjectNoFallback(files, pkg) ==
  [type |-> "node", framework |-> "Node.js", files |-> files,
   buildCommand |-> Script(pkg.scripts, "build"),
   startCommand |-> Script(pkg.scripts, "start"),
   dependencies |-> pkg.dependencies]

AnalyzeNodeProject(files, pkg) ==
  LET deps == pkg.dependencies
      all  == pkg.dependencies \cup pkg.devDependencies
      s    == pkg.scripts
      build == IF Script(s, "build") # Null THEN "npm run build" ELSE Null
  IN IF "react" \in all THEN
       [type |-> "react", framework |-> "React", files |-> files,
        buildCommand |-> build,
        startCommand |-> OrElse(Script(s, "start"), OrElse(Script(s, "dev"), "npm start")),
        dependencies |-> deps]
     ELSE IF "vue" \in all THEN
       [type |-> "vue", framework |-> "Vue.js", files |-> files,
        buildCommand |-> build,
        startCommand |-> OrElse(Script(s, "serve"), OrElse(Script(s, "dev"), "npm run serve")),
        dependencies |-> deps]
     ELSE IF "@angular/core" \in all THEN
       [type |-> "angular", framework |-> "Angular", files |-> files,
        buildCommand |-> build,
        startCommand |-> OrElse(Script(s, "start"), "ng serve"),
        dependencies |-> deps]
     ELSE IF deps \cap {"express", "fastify", "koa"} # {} THEN
       [type |-> "node", framework |-> "Node.js Server", files |-> files,
        buildCommand |-> Script(s, "build"),
        startCommand |-> OrElse(Script(s, "start"), "node index.js"),
        dependencies |-> deps]
     ELSE
       [type |-> "node", framework |-> "Node.js", files |-> files,
        buildCommand |-> Script(s, "build"),
        startCommand |-> OrElse(Script(s, "start"), OrElse(Script(s, "dev"), "node index.js")),
        dependencies |-> deps]

\* f.includes('app.py') || f.includes('main.py'), on the names of the model.
PyMainNames == {"app.py", "main.py"}
AnalyzePythonProject(files) ==
  IF \E i \in 1..Len(files) : \E j \in 1..Len(files[i]) : files[i][j] \in PyMainNames
  THEN [type |-> "python", framework |-> "Python Web App", files |-> files,
        buildCommand |-> "pip install -r requirements.txt",
        startCommand |-> "python app.py"]
  ELSE [type |-> "python", framework |-> "Python", files |-> files,
        buildCommand |-> "pip install -r requirements.txt",
        startCommand |-> "python main.py"]

AnalyzeStaticProject(files) ==
  [type |-> "static", framework |-> "Static HTML", files |-> files,
   buildCommand |-> Null, startCommand |-> Null,
   entryPoint |-> IF \E i \in 1..Len(files) : EndsWithIndex(files[i])
                  THEN <<"index.html">>
                  ELSE FindHtml(files)]

\* A classification that looks for a Dockerfile before the Python manifests.
AnalyzeProjectDockerFirst(entries, manifest) ==
  LET files == GetFileList(entries) IN
  IF SeqHas(files, <<"package.json">>)
    THEN AnalyzeNodeProject(files, ReadPackageJson(manifest))
  ELSE IF SeqHas(files, <<"Dockerfile">>)
    THEN [type |-> "docker", files |-> files,
          buildCommand |-> "docker build .", startCommand |-> "docker run"]
  ELSE IF SeqHas(files, <<"requirements.txt">>) \/ SeqHas(files, <<"Pipfile">>)
    THEN AnalyzePythonProject(files)
  ELSE IF \E i \in 1..Len(files) : EndsWithHtml(files[i])
    THEN AnalyzeStaticProject(files)
  ELSE [type |-> "unknown", files |-> files, buildCommand |-> Null, startCommand |-> Null]

AnalyzeProject(entries, manifest) ==
  LET files == GetFileList(entries) IN
  IF SeqHas(files, <<"package.json">>)
    THEN AnalyzeNodeProject(files, ReadPackageJson(manifest))
  ELSE IF SeqHas(files, <<"requirements.txt">>) \/ SeqHas(files, <<"Pipfile">>)
    THEN AnalyzePythonProject(files)
  ELSE IF SeqHas(files, <<"Dockerfile">>)
    THEN [type |-> "docker", files |-> files,
          buildCommand |-> "docker build .", startCommand |-> "docker run"]
  ELSE IF \E i \in 1..Len(files) : EndsWithHtml(files[i])
    THEN AnalyzeStaticProject(files)
  ELSE [type |-> "unknown", files |-> files, buildCommand |-> Null, startCommand |-> Null]

\* What extract() resolves with: the analysis plus extractPath.
ExtractResult(a, runId) ==
  Merge(AnalyzeProject(a.entries, a.manifest), [extractPath |-> ExtractPath(runId)])

\* The uploads a behaviour draws from: the file multer receives (its declared
\* mimetype, whether its name ends with ".zip", its size in bytes) with the
\* archive it holds.
NoManifest == [valid |-> FALSE]
ZipFile(count, entries, manifest) ==
  [mimetype |-> "application/zip", zipName |-> TRUE, size |-> 1,
   count |-> count, entries |-> entries, manifest |-> manifest, corrupt |-> FALSE]
StaticZip == ZipFile(2, << <<"index.html">>, <<"css", "style.css">> >>, NoManifest)
ReactZip ==
  ZipFile(2, << <<"package.json">>, <<"Dockerfile">> >>,
          [valid |-> TRUE, scripts |-> [build |-> "vite build"],
           dependencies |-> {"react"}, devDependencies |-> {}])
\* A project whose package.json does not parse.
BrokenManifestZip ==
  ZipFile(2, << <<"package.json">>, <<"Dockerfile">> >>, NoManifest)
EvilZip == ZipFile(2, << <<"index.html">>, <<"..", "evil">> >>, NoManifest)
AbsoluteZip == ZipFile(1, << <<"", "etc", "passwd">> >>, NoManifest)
DeepZip == ZipFile(1, << [i \in 1..(MaxDepth + 1) |-> "d"] >>, NoManifest)
\* More entries than maxFiles; entries lists the distinct names only.
ManyFilesZip == ZipFile(MaxFiles + 1, << <<"index.html">> >>, NoManifest)
\* A text file uploaded under a .zip name.
RenamedText ==
  [ZipFile(0, << >>, NoManifest) EXCEPT !.mimetype = "text/plain", !.corrupt = TRUE]
TextFile == [RenamedText EXCEPT !.zipName = FALSE]
HugeZip == [StaticZip EXCEPT !.size = MaxSize + 1]
Uploads ==
  {StaticZip, ReactZip, EvilZip, AbsoluteZip, DeepZip, ManyFilesZip, RenamedText,
   TextFile, HugeZip}

\* multer's fileFilter.
FileFilter(file) == ~(file.mimetype # "application/zip" /\ ~file.zipName)

\* POST /api/runs: the status and the error message of the response, for a
\* request carrying the files in `files` (none or one) under the field 'file'.
\* multer passes a rejected or oversized file to errorHandler.
PostResponse(files) ==
  IF files = {} THEN [status |-> 400, error |-> "No ZIP file provided"]
  ELSE LET file == CHOOSE f \in files : TRUE IN
       IF ~FileFilter(file) THEN [status |-> 400, error |-> "Only ZIP files are allowed"]
       ELSE IF file.size > MaxSize THEN [status |-> 400, error |-> "File too large"]
       ELSE [status |-> 201, error |-> ""]

\* ------------------------------------------------------------------ Worker
\* A Worker object.  healthCheckInterval is "unset" until simulateStart arms
\* it, then "active", and "cleared" after clearInterval.

WorkerId(runId) == <<"worker-", runId>>

\* A Worker that is given the manager's first port whatever the port passed.
NewWorkerFirstPort(runId, port, info) ==
  [id |-> WorkerId(runId), runId |-> runId, port |-> FirstPort,
   projectPath |-> info.extractPath, projectType |-> info.type,
   buildCommand |-> info.buildCommand, startCommand |-> info.startCommand,
   status |-> "created", startTime |-> -1, healthCheckInterval |-> "unset"]

NewWorker(runId, port, info) ==
  [id |-> WorkerId(runId), runId |-> runId, port |-> port,
   projectPath |-> info.extractPath, projectType |-> info.type,
   buildCommand |-> info.buildCommand, startCommand |-> info.startCommand,
   status |-> "created", startTime |-> -1, healthCheckInterval |-> "unset"]

\* Worker.start up to its first await.
WorkerBeginStart(w, t) == [w EXCEPT !.status = "starting", !.startTime = t]

\* simulateBuild's delay for a project type, in milliseconds.
BuildTime(type) ==
  CASE type = "static" -> 500
    [] type = "react" -> 3000
    [] type = "vue" -> 3000
    [] type = "angular" -> 5000
    [] type = "node" -> 2000
    [] OTHER -> 1000

\* A timer armed at tick `armed` with delay ms may run now: the time elapsed
\* since it was armed lies in [(now - armed) * MsPerTick, (now - armed + 1) *
\* MsPerTick), and a timer never runs early but may run late.
TimerMayFire(armed, ms, t) == (t - armed + 1) * MsPerTick > ms

\* A catch block that rethrows without marking the worker.
WorkerFailedStaysStarting(w) == w

\* Worker.start's catch block.
WorkerFailed(w) == [w EXCEPT !.status = "failed"]

\* simulateStart after its delay: the health-check interval is armed.
WorkerArmHealthCheck(w) == [w EXCEPT !.healthCheckInterval = "active"]

\* Worker.start after simulateStart.
WorkerRunning(w) == [w EXCEPT !.status = "running"]

\* Worker.stop, which runs without yielding.
WorkerStop(w) ==
  [w EXCEPT !.status = "stopped",
            !.healthCheckInterval = IF @ = "unset" THEN "unset" ELSE "cleared"]

\* waitUntilReady before its first await: "poll" when the loop is entered,
\* else how the call settles.
WaitEntry(w) ==
  IF w.status # "running" /\ w.status # "failed" THEN "poll"
  ELSE IF w.status = "failed" THEN "failed"
  ELSE "ready"

\* ---------------------------------------------------------- preview gateway
\* A request path is [stem, ext, dir]: its text is stem followed by ext, and
\* dir says that it ends with '/'.  EmptyPath is '' (req.params[0] || '').

EmptyPath == [stem |-> "", ext |-> "", dir |-> FALSE]
IndexPath == [stem |-> "index", ext |-> ".html", dir |-> FALSE]
JsPath    == [stem |-> "app", ext |-> ".js", dir |-> FALSE]
TxtPath   == [stem |-> "notes", ext |-> ".txt", dir |-> FALSE]
ReqPaths  == {EmptyPath, IndexPath, JsPath, TxtPath}

\* config.security.csp
CspStrict == "config.security.csp.strict"
CspRelaxed == "config.security.csp.relaxed"

\* A policy choice whose switch lacks the 'vue' case.
GetCSPForProjectNoVue(projectType) ==
  CASE projectType = "static" -> CspStrict
    [] projectType \in {"react", "angular"} -> CspRelaxed
    [] OTHER -> CspStrict

GetCSPForProject(projectType) ==
  CASE projectType = "static" -> CspStrict
    [] projectType \in {"react", "vue", "angular"} -> CspRelaxed
    [] OTHER -> CspStrict

GetContentType(path) ==
  IF path = EmptyPath \/ path.dir \/ path.ext = ".html" THEN "text/html"
  ELSE IF path.ext = ".js" THEN "application/javascript"
  ELSE IF path.ext = ".css" THEN "text/css"
  ELSE IF path.ext = ".json" THEN "application/json"
  ELSE IF path.ext = ".png" THEN "image/png"
  ELSE IF path.ext \in {".jpg", ".jpeg"} THEN "image/jpeg"
  ELSE "text/plain"

\* Which of the templates a content generator picks for a path.
ContentKind(path) ==
  IF path = EmptyPath \/ path = IndexPath THEN "page"
  ELSE IF ~path.dir /\ path.ext = ".js" THEN "js"
  ELSE IF ~path.dir /\ path.ext = ".css" THEN "css"
  ELSE "other"

\* Worker.generateSimulatedContent
GenerateSimulatedContent(w, path) ==
  CASE ContentKind(path) = "page" -> <<"worker", "page", w.projectType, w.id, w.port>>
    [] ContentKind(path) = "js" -> <<"worker", "js", path, w.id>>
    [] ContentKind(path) = "css" -> <<"worker", "css", path>>
    [] OTHER -> <<"worker", "other", path>>

\* A getContent that serves in the starting status too.
GetContentWhileStarting(w, path) ==
  IF w.status \notin {"running", "starting"}
  THEN [error |-> <<"Worker not running">>, content |-> << >>]
  ELSE [error |-> NoError, content |-> GenerateSimulatedContent(w, path)]

\* Worker.getContent(path): the message of the error thrown (NoError if none)
\* and the content returned.
GetContent(w, path) ==
  IF w.status # "running"
  THEN [error |-> <<"Worker not running">>, content |-> << >>]
  ELSE [error |-> NoError, content |-> GenerateSimulatedContent(w, path)]

\* routes/preview generateFallbackContent
GenerateFallbackContent(path, run) ==
  CASE ContentKind(path) = "page" ->
         <<"fallback", "page",
           IF Has(run, "projectType") THEN run.projectType ELSE "Unknown", run.id>>
    [] ContentKind(path) = "js" -> <<"fallback", "js", path, run.id>>
    [] ContentKind(path) = "css" -> <<"fallback", "css", path>>
    [] OTHER -> <<"fallback", "other", path, run.id>>

\* securityMiddleware.preview, which runs before the route handler.
MiddlewareHeaders ==
  [XContentTypeOptions |-> "nosniff", XFrameOptions |-> "SAMEORIGIN",
   XXSSProtection |-> "1; mode=block", ReferrerPolicy |-> "no-referrer",
   CrossOriginResourcePolicy |-> "same-origin",
   CrossOriginEmbedderPolicy |-> "require-corp",
   CrossOriginOpenerPolicy |-> "same-origin"]

\* The res.set of the route handler.
PreviewHeaders(run) ==
  [ContentSecurityPolicy |->
     GetCSPForProject(IF Has(run, "projectType") THEN run.projectType ELSE "undefined"),
   XFrameOptions |-> "SAMEORIGIN", XContentTypeOptions |-> "nosniff",
   ReferrerPolicy |-> "no-referrer", CrossOriginResourcePolicy |-> "same-origin",
   CacheControl |-> "no-store, no-cache, must-revalidate", Pragma |-> "no-cache"]

\* GET /preview/:runId/* against the gateway's own store and worker manager
\* (a map from worker ids to Worker objects).
PreviewResponse(store, manager, id, path) ==
  IF ~StoreHas(store, id) THEN
    [status |-> 404, headers |-> MiddlewareHeaders, body |-> <<"Preview Not Found">>]
  ELSE LET run == store[id] IN
    IF run.status # "ready" THEN
      [status |-> 503, headers |-> MiddlewareHeaders,
       body |-> <<"Preview Not Ready", run.status>>]
    ELSE IF Has(run, "workerId") /\ run.workerId \in DOMAIN manager
            /\ manager[run.workerId].status # "running" THEN
      [status |-> 500, headers |-> MiddlewareHeaders, body |-> <<"Preview error">>]
    ELSE
      [status |-> 200,
       headers |-> Merge(Merge(MiddlewareHeaders, PreviewHeaders(run)),
                         [ContentType |-> GetContentType(path)]),
       body |-> IF Has(run, "workerId") /\ run.workerId \in DOMAIN manager
                THEN GenerateSimulatedContent(manager[run.workerId], path)
                ELSE GenerateFallbackContent(path, run)]

\* ------------------------------------------------------------ orchestrator
\* The partial fields of processRun's registry updates.

ExtractingUpdate == [status |-> "extracting"]

\* A classification update that leaves the status as it was.
ClassifiedUpdateNoStatus(info) == [projectType |-> info.type, projectInfo |-> info]

ClassifiedUpdate(info) ==
  [status |-> "building", projectType |-> info.type, projectInfo |-> info]

\* A worker update that falls back to the extracting status.
WorkerUpdateExtracting(w) ==
  [status |-> "extracting", workerId |-> w.id, workerPort |-> w.port]

WorkerUpdate(w) == [status |-> "building", workerId |-> w.id, workerPort |-> w.port]

\* A ready update without the preview URL.
ReadyUpdateNoUrl(runId, t) == [status |-> "ready", readyAt |-> t]

ReadyUpdate(runId, t) ==
  [status |-> "ready", previewUrl |-> <<"/preview/", runId>>, readyAt |-> t]

FailedUpdate(msg, t) == [status |-> "failed", error |-> msg, failedAt |-> t]

\* The update of the .catch callback router.post attaches to processRun.
CatchUpdate(msg) == [status |-> "failed", error |-> msg]

\* A failure path that only logs the error.
RejectUpdatesLogOnly(msg, t) == << >>

\* processRun's catch block followed by that callback: the updates made.
RejectUpdates(msg, t) == <<FailedUpdate(msg, t), CatchUpdate(msg)>>

\* The run object router.post creates.
NewRun(runId, t) ==
  [id |-> runId, status |-> "queued", createdAt |-> t,
   filePath |-> <<"temp", "upload-", runId>>,
   originalName |-> <<"project", runId, ".zip">>, fileSize |-> 1]

\* Consecutive runStore.update calls on one id: the store afterwards.
RECURSIVE ApplyUpdates(_, _, _, _)
ApplyUpdates(store, id, ups, t) ==
  IF ups = << >> THEN store
  ELSE ApplyUpdates(StoreUpdate(store, id, Head(ups), t), id, Tail(ups), t)

\* The values those calls returned.
UpdateResults(store, id, ups, t) ==
  {StoreUpdateResult(ApplyUpdates(store, id, SubSeq(ups, 1, i - 1), t), id, ups[i], t) :
     i \in 1..Len(ups)}

\* The status the entry shows after each of those calls.
StatusesWritten(store, id, ups, t) ==
  [i \in 1..Len(ups) |-> ApplyUpdates(store, id, SubSeq(ups, 1, i), t)[id].status]

VARIABLES
  runs,               \* the RunStore of routes/runs
  workers,            \* WorkerManager.workers of routes/runs: worker id -> the
                      \* run whose Worker object the entry refers to
  nextPort,           \* WorkerManager.nextPort of routes/runs
  wobj,               \* the Worker object created for each run, if any
  wpc,                \* where that Worker's start() is suspended
  timerAt,            \* the tick at which its pending timer was armed
  pc,                 \* where each run's processRun is suspended
  err,                \* the message processRun rejected with
  upload,             \* the archive uploaded for each run
  dirs,               \* the runs whose extraction directory exists on disk
  extractedProjects,  \* ZipProcessor.extractedProjects: run id -> extractPath
  rmPending,          \* runs with an fs.rm of ZipProcessor.cleanup under way
  previewRuns,        \* the RunStore of routes/preview
  previewWorkers,     \* WorkerManager.workers of routes/preview
  now,                \* Date.now(), in ticks
  resp,               \* the last response of GET /preview/:runId/*
  statusLog,          \* history: the status values each registry entry took
  lateResults,        \* history: what runStore.update returned to processRun
                      \* once the run had been deleted
  deletedIn,          \* history: the status a run had when DELETE removed it
  call,               \* the last call made on the RunStore or the ZipProcessor
                      \* from outside routes/runs, with what it returned
  api,                \* the last response of POST or GET /api/runs
  mgr                 \* a WorkerManager called directly: its workers map (worker
                      \* id -> index of the Worker object), its nextPort, the
                      \* Worker objects it created and the last call made on it

vars == <<runs, workers, nextPort, wobj, wpc, timerAt, pc, err, upload, dirs,
          extractedProjects, rmPending, previewRuns, previewWorkers, now, resp,
          statusLog, lateResults, deletedIn, call, api, mgr>>

NoResponse ==
  [id |-> 0, path |-> EmptyPath, status |-> 0, headers |-> << >>, body |-> << >>,
   held |-> "none"]

NoCall ==
  [op |-> "none", id |-> 0, fields |-> << >>, maxAge |-> 0, before |-> << >>,
   result |-> {}, count |-> 0, at |-> 0, n |-> 0, exists |-> FALSE,
   entries |-> << >>, manifest |-> [valid |-> FALSE], error |-> << >>]

\* new WorkerManager(), with no call made on it yet.
NoManagerCall == [op |-> "none", id |-> << >>, times |-> 0, was |-> "none",
                  error |-> << >>, content |-> << >>]
NewManager ==
  [workers |-> << >>, nextPort |-> FirstPort, objects |-> << >>, last |-> NoManagerCall]

NoApi == [method |-> "none", id |-> 0, status |-> 0, body |-> {}, error |-> ""]

OrchestratorInit ==
  /\ runs = NewStore
  /\ workers = << >>
  /\ nextPort = FirstPort
  /\ wobj = [r \in RunIds |-> {}]
  /\ wpc = [r \in RunIds |-> "none"]
  /\ timerAt = [r \in RunIds |-> 0]
  /\ pc = [r \in RunIds |-> "idle"]
  /\ err = [r \in RunIds |-> NoError]
  /\ upload = [r \in RunIds |-> {}]
  /\ dirs = {}
  /\ extractedProjects = << >>
  /\ rmPending = {}
  /\ now = 0
  /\ resp = NoResponse
  /\ statusLog = [r \in RunIds |-> << >>]
  /\ lateResults = [r \in RunIds |-> {}]
  /\ deletedIn = [r \in RunIds |-> "never"]
  /\ call = NoCall
  /\ api = NoApi
  /\ mgr = NewManager

Init ==
  /\ OrchestratorInit
  /\ previewRuns = NewStore
  /\ previewWorkers = << >>

TheWorker(r) == CHOOSE w \in wobj[r] : TRUE
TheUpload(r) == CHOOSE a \in upload[r] : TRUE

MapSet(m, k, v) == [x \in (DOMAIN m) \cup {k} |-> IF x = k THEN v ELSE m[x]]
MapDelete(m, k) == [x \in (DOMAIN m) \ {k} |-> m[x]]

\* processRun makes the updates ups on run r, starting from the store `from`.
Updates(r, from, ups) ==
  /\ runs' = ApplyUpdates(from, r, ups, now)
  /\ IF StoreHas(from, r)
     THEN /\ statusLog' = [statusLog EXCEPT
                             ![r] = (IF StoreHas(runs, r) THEN @ ELSE <<from[r].status>>)
                                    \o StatusesWritten(from, r, ups, now)]
          /\ UNCHANGED lateResults
     ELSE /\ lateResults' = [lateResults EXCEPT
                               ![r] = @ \cup UpdateResults(from, r, ups, now)]
          /\ UNCHANGED statusLog

\* POST /api/runs with a file: the run is created, and processRun runs up to
\* the first await of ZipProcessor.extract (the fs.mkdir of a valid archive,
\* the fs.rm of the catch block for a rejected one).
Submit(r, a) ==
  /\ PostResponse({a}).status = 201
  /\ pc[r] = "idle"
  /\ \A q \in RunIds : q < r => pc[q] # "idle"
  /\ Updates(r, StoreCreate(runs, NewRun(r, now)), <<ExtractingUpdate>>)
  /\ err' = [err EXCEPT ![r] = ValidateArchive(a)]
  /\ pc' = [pc EXCEPT ![r] = IF ValidateArchive(a) = NoError THEN "mkdir" ELSE "cleanup"]
  /\ upload' = [upload EXCEPT ![r] = {a}]
  /\ api' = [method |-> "POST", id |-> r, status |-> 201,
             body |-> {[id |-> r, status |-> "queued", createdAt |-> now]},
             error |-> ""]
  /\ UNCHANGED <<workers, nextPort, wobj, wpc, timerAt, dirs, extractedProjects,
                 rmPending, previewRuns, previewWorkers, now, resp, deletedIn, call,
                 mgr>>

\* POST /api/runs answered with an error: without a file, or with a file that
\* multer rejects.
SubmitRejected(files) ==
  /\ PostResponse(files).status # 201
  /\ api' = [method |-> "POST", id |-> 0, status |-> PostResponse(files).status,
             body |-> {}, error |-> PostResponse(files).error]
  /\ api' # api
  /\ UNCHANGED <<runs, workers, nextPort, wobj, wpc, timerAt, pc, err, upload, dirs,
                 extractedProjects, rmPending, previewRuns, previewWorkers, now, resp,
                 statusLog, lateResults, deletedIn, call,
                 mgr>>

\* The fs.rm of extract's catch block completes: extract rejects, processRun's
\* catch block records the failure and rethrows, the .catch callback runs.
ExtractRejected(r) ==
  /\ pc[r] = "cleanup"
  /\ dirs' = dirs \ {r}
  /\ Updates(r, runs, RejectUpdates(err[r], now))
  /\ pc' = [pc EXCEPT ![r] = "done"]
  /\ UNCHANGED <<workers, nextPort, wobj, wpc, timerAt, err, upload,
                 extractedProjects, rmPending, previewRuns, previewWorkers, now, resp,
                 deletedIn, call, api,
                 mgr>>

\* fs.mkdir completes: extractAllTo writes the files, analyzeProject starts
\* reading the directory.
ExtractFiles(r) ==
  /\ pc[r] = "mkdir"
  /\ dirs' = dirs \cup {r}
  /\ pc' = [pc EXCEPT ![r] = "analyze"]
  /\ UNCHANGED <<runs, workers, nextPort, wobj, wpc, timerAt, err, upload,
                 extractedProjects, rmPending, previewRuns, previewWorkers, now, resp,
                 statusLog, lateResults, deletedIn, call, api,
                 mgr>>

\* analyzeProject completes: extract resolves, processRun records the
\* classification and calls WorkerManager.start, which creates the Worker,
\* registers it and runs Worker.start up to simulateBuild's timer.
Classified(r) ==
  /\ pc[r] = "analyze"
  /\ LET info == ExtractResult(TheUpload(r), r)
         w == WorkerBeginStart(NewWorker(r, nextPort, info), now)
     IN /\ extractedProjects' = MapSet(extractedProjects, r, info.extractPath)
        /\ Updates(r, runs, <<ClassifiedUpdate(info)>>)
        /\ nextPort' = nextPort + 1
        /\ wobj' = [wobj EXCEPT ![r] = {w}]
        /\ workers' = MapSet(workers, w.id, r)
  /\ wpc' = [wpc EXCEPT ![r] = "build"]
  /\ timerAt' = [timerAt EXCEPT ![r] = now]
  /\ pc' = [pc EXCEPT ![r] = "provision"]
  /\ UNCHANGED <<err, upload, dirs, rmPending, previewRuns, previewWorkers, now, resp,
                 deletedIn, call, api,
                 mgr>>

\* simulateBuild's timer runs.  With fails (Math.random() < 0.05) the build
\* throws: Worker.start marks the worker failed, WorkerManager.start drops it
\* and rethrows, and processRun rejects.  Otherwise simulateStart arms its
\* timer.
BuildTimerFires(r, fails) ==
  /\ wpc[r] = "build"
  /\ pc[r] = "provision"
  /\ TimerMayFire(timerAt[r], BuildTime(TheWorker(r).projectType), now)
  /\ IF fails
     THEN /\ wobj' = [wobj EXCEPT ![r] = {WorkerFailed(TheWorker(r))}]
          /\ workers' = MapDelete(workers, TheWorker(r).id)
          /\ wpc' = [wpc EXCEPT ![r] = "settled"]
          /\ err' = [err EXCEPT ![r] = <<"Simulated build failure">>]
          /\ Updates(r, runs, RejectUpdates(<<"Simulated build failure">>, now))
          /\ pc' = [pc EXCEPT ![r] = "done"]
          /\ UNCHANGED timerAt
     ELSE /\ wpc' = [wpc EXCEPT ![r] = "startup"]
          /\ timerAt' = [timerAt EXCEPT ![r] = now]
          /\ UNCHANGED <<wobj, workers, err, runs, statusLog, lateResults, pc>>
  /\ UNCHANGED <<nextPort, upload, dirs, extractedProjects, rmPending, previewRuns,
                 previewWorkers, now, resp, deletedIn, call, api,
                 mgr>>

\* simulateStart's timer runs: the health check is armed, Worker.start sets
\* running, WorkerManager.start resolves, and processRun records the worker and
\* calls waitUntilReady, which settles at once unless it has to poll.
StartTimerFires(r) ==
  /\ wpc[r] = "startup"
  /\ pc[r] = "provision"
  /\ TimerMayFire(timerAt[r], StartTime, now)
  /\ LET w == WorkerRunning(WorkerArmHealthCheck(TheWorker(r)))
         entry == WaitEntry(w)
     IN /\ wobj' = [wobj EXCEPT ![r] = {w}]
        /\ wpc' = [wpc EXCEPT ![r] = "settled"]
        /\ CASE entry = "ready" ->
                  /\ Updates(r, runs, <<WorkerUpdate(w), ReadyUpdate(r, now)>>)
                  /\ pc' = [pc EXCEPT ![r] = "done"]
                  /\ UNCHANGED err
             [] entry = "failed" ->
                  /\ Updates(r, runs, <<WorkerUpdate(w)>>
                                        \o RejectUpdates(<<"Worker failed to start">>, now))
                  /\ pc' = [pc EXCEPT ![r] = "done"]
                  /\ err' = [err EXCEPT ![r] = <<"Worker failed to start">>]
             [] OTHER ->
                  /\ Updates(r, runs, <<WorkerUpdate(w)>>)
                  /\ pc' = [pc EXCEPT ![r] = "polling"]
                  /\ UNCHANGED err
  /\ UNCHANGED <<workers, nextPort, timerAt, upload, dirs, extractedProjects,
                 rmPending, previewRuns, previewWorkers, now, resp, deletedIn, call, api,
                 mgr>>

\* WorkerManager.stop(workerId): the Worker objects afterwards.  Worker.stop
\* runs without yielding, so the entry is gone before any other task runs.
StopWorkerObjects(objs, manager, workerId) ==
  IF workerId \in DOMAIN manager
  THEN [objs EXCEPT ![manager[workerId]] = {WorkerStop(CHOOSE w \in @ : TRUE)}]
  ELSE objs

\* A stop that empties the map.
StopWorkerMapAll(manager, workerId) == << >>

\* WorkerManager.stop(workerId): the map afterwards.
StopWorkerMap(manager, workerId) == MapDelete(manager, workerId)

\* DELETE /api/runs/:id for a stored run.
DeleteRun(r) ==
  /\ StoreHas(runs, r)
  /\ IF Has(runs[r], "workerId")
     THEN /\ wobj' = StopWorkerObjects(wobj, workers, runs[r].workerId)
          /\ workers' = StopWorkerMap(workers, runs[r].workerId)
     ELSE UNCHANGED <<wobj, workers>>
  /\ runs' = StoreDelete(runs, r)
  /\ IF r \in DOMAIN extractedProjects
     THEN rmPending' = rmPending \cup {r}
     ELSE UNCHANGED rmPending
  /\ deletedIn' = [deletedIn EXCEPT ![r] = runs[r].status]
  /\ UNCHANGED <<nextPort, wpc, timerAt, pc, err, upload, dirs, extractedProjects,
                 previewRuns, previewWorkers, now, resp, statusLog, lateResults,
                 call, api,
                 mgr>>

\* The fs.rm of ZipProcessor.cleanup completes.
CleanupDone(r) ==
  /\ r \in rmPending
  /\ rmPending' = rmPending \ {r}
  /\ dirs' = dirs \ {r}
  /\ extractedProjects' = MapDelete(extractedProjects, r)
  /\ UNCHANGED <<runs, workers, nextPort, wobj, wpc, timerAt, pc, err, upload,
                 previewRuns, previewWorkers, now, resp, statusLog, lateResults,
                 deletedIn, call, api,
                 mgr>>

\* What the orchestrator's registry holds for an id.
Held(id) == IF StoreHas(runs, id) THEN runs[id].status ELSE "absent"

\* GET /preview/:runId/*.  The response is kept with the id and the path asked
\* for and with what the orchestrator's registry held for that id when it was
\* served.
PreviewGet(id, path) ==
  /\ resp' = Merge(PreviewResponse(previewRuns, previewWorkers, id, path),
                   [id |-> id, path |-> path, held |-> Held(id)])
  /\ resp' # resp
  /\ UNCHANGED <<runs, workers, nextPort, wobj, wpc, timerAt, pc, err, upload, dirs,
                 extractedProjects, rmPending, previewRuns, previewWorkers, now,
                 statusLog, lateResults, deletedIn, call, api,
                 mgr>>

\* Time passes.
Tick ==
  /\ now < MaxNow
  /\ now' = now + 1
  /\ UNCHANGED <<runs, workers, nextPort, wobj, wpc, timerAt, pc, err, upload, dirs,
                 extractedProjects, rmPending, previewRuns, previewWorkers, resp,
                 statusLog, lateResults, deletedIn, call, api,
                 mgr>>

\* ------------------------------------------------- the RunStore called directly
\* The calls the repository's tests and a periodic sweep make on a RunStore,
\* here the store of routes/runs, each recorded with the store it found and
\* the value it returned.

\* The partial fields passed to update.
StoreFields ==
  {<< >>, [status |-> "building"],
   [status |-> "ready", previewUrl |-> <<"/preview/", 1>>],
   [updatedAt |-> -1, note |-> "stale"]}

\* Partial fields that carry an id.
IdFields == {[status |-> "building"], [id |-> MaxRuns, note |-> "renamed"]}

\* The maxAge values passed to cleanup, in milliseconds.
CleanupAges == {0, MsPerTick}

RunStoreCreate(id) ==
  /\ runs' = StoreCreate(runs, NewRun(id, now))
  /\ call.n < MaxCalls
  /\ call' = [NoCall EXCEPT !.n = call.n + 1, !.op = "create", !.id = id,
                            !.before = runs, !.at = now]
  /\ UNCHANGED <<workers, nextPort, wobj, wpc, timerAt, pc, err, upload, dirs,
                 extractedProjects, rmPending, previewRuns, previewWorkers, now, resp,
                 statusLog, lateResults, deletedIn, api,
                 mgr>>

RunStoreUpdate(id, fields) ==
  /\ runs' = StoreUpdate(runs, id, fields, now)
  /\ call.n < MaxCalls
  /\ call' = [NoCall EXCEPT !.n = call.n + 1, !.op = "update", !.id = id, !.fields = fields,
                            !.before = runs, !.at = now,
                            !.result = StoreUpdateResult(runs, id, fields, now)]
  /\ UNCHANGED <<workers, nextPort, wobj, wpc, timerAt, pc, err, upload, dirs,
                 extractedProjects, rmPending, previewRuns, previewWorkers, now, resp,
                 statusLog, lateResults, deletedIn, api,
                 mgr>>

RunStoreDelete(id) ==
  /\ runs' = StoreDelete(runs, id)
  /\ call.n < MaxCalls
  /\ call' = [NoCall EXCEPT !.n = call.n + 1, !.op = "delete", !.id = id,
                            !.before = runs, !.at = now]
  /\ UNCHANGED <<workers, nextPort, wobj, wpc, timerAt, pc, err, upload, dirs,
                 extractedProjects, rmPending, previewRuns, previewWorkers, now, resp,
                 statusLog, lateResults, deletedIn, api,
                 mgr>>

RunStoreCleanup(maxAge) ==
  /\ runs' = StoreCleanup(runs, maxAge, now)
  /\ call.n < MaxCalls
  /\ call' = [NoCall EXCEPT !.n = call.n + 1, !.op = "cleanup", !.maxAge = maxAge,
                            !.before = runs, !.at = now,
                            !.count = StoreCleanupResult(runs, maxAge, now)]
  /\ UNCHANGED <<workers, nextPort, wobj, wpc, timerAt, pc, err, upload, dirs,
                 extractedProjects, rmPending, previewRuns, previewWorkers, now, resp,
                 statusLog, lateResults, deletedIn, api,
                 mgr>>

\* ----------------------------------------------------- GET /api/runs/:id
\* The run without its filePath: const { filePath, ...publicRun } = run.
PublicRun(run) == [k \in (DOMAIN run) \ {"filePath"} |-> run[k]]

\* GET /api/runs/:id: the body is a one-element set holding the JSON object
\* sent, or empty with the error message sent instead.
GetRun(id) ==
  /\ api' = IF StoreHas(runs, id)
            THEN [method |-> "GET", id |-> id, status |-> 200,
                  body |-> {PublicRun(runs[id])}, error |-> ""]
            ELSE [method |-> "GET", id |-> id, status |-> 404,
                  body |-> {}, error |-> "Run not found"]
  /\ api' # api
  /\ UNCHANGED <<runs, workers, nextPort, wobj, wpc, timerAt, pc, err, upload, dirs,
                 extractedProjects, rmPending, previewRuns, previewWorkers, now, resp,
                 statusLog, lateResults, deletedIn, call,
                 mgr>>

\* ------------------------------------------- analyzeProject called directly
\* The files an extracted tree is drawn from, in the order readdir lists them.
TreeFiles ==
  << <<"Dockerfile">>, <<"Pipfile">>, <<"about.html">>, <<"docs", "index.html">>,
     <<"index.html">>, <<"node_modules", "pkg", "index.html">>, <<"package.json">>,
     <<"requirements.txt">>, <<"src", "main.py">> >>

\* The trees: every selection of those files.
Trees ==
  {SelectSeq(TreeFiles, LAMBDA f : f \in chosen) :
     chosen \in SUBSET {TreeFiles[i] : i \in 1..Len(TreeFiles)}}

\* The package.json contents a tree is analysed with.
Manifests ==
  {NoManifest,
   [valid |-> TRUE, scripts |-> << >>, dependencies |-> {}, devDependencies |-> {}],
   [valid |-> TRUE, scripts |-> [build |-> "vite build"], dependencies |-> {"react"},
    devDependencies |-> {}],
   [valid |-> TRUE, scripts |-> << >>, dependencies |-> {"vue"}, devDependencies |-> {}],
   [valid |-> TRUE, scripts |-> [start |-> "node server.js"],
    dependencies |-> {"express"}, devDependencies |-> {"@angular/core"}],
   [valid |-> TRUE, scripts |-> << >>, dependencies |-> {"vue"},
    devDependencies |-> {"react"}],
   [valid |-> TRUE, scripts |-> [start |-> "node app.js"], dependencies |-> {"fastify"},
    devDependencies |-> {}],
   [valid |-> TRUE, scripts |-> [dev |-> "nodemon app.js"], dependencies |-> {},
    devDependencies |-> {"koa"}]}

\* A project path: whether a directory exists there, and the files below it.
NoDirectory == [exists |-> FALSE, entries |-> << >>]
Directory(entries) == [exists |-> TRUE, entries |-> entries]

\* analyzeProject(projectPath): the error it rejects with, NoError when it
\* resolves.  getFileList's fs.readdir rejects for a path without a directory.
AnalyzeError(dir) ==
  IF dir.exists THEN NoError ELSE <<"ENOENT: no such file or directory, scandir">>

\* analyzeProject called once on a project path; manifest is what the root
\* package.json holds, when there is one.
Analyze(dir, manifest) ==
  /\ call.op = "none"
  /\ SeqHas(dir.entries, <<"package.json">>) \/ manifest = NoManifest
  /\ call' = [NoCall EXCEPT !.op = "analyzeProject", !.exists = dir.exists,
                            !.entries = dir.entries, !.manifest = manifest,
                            !.error = AnalyzeError(dir),
                            !.result = IF AnalyzeError(dir) = NoError
                                       THEN {AnalyzeProject(dir.entries, manifest)}
                                       ELSE {}]
  /\ UNCHANGED <<runs, workers, nextPort, wobj, wpc, timerAt, pc, err, upload, dirs,
                 extractedProjects, rmPending, previewRuns, previewWorkers, now, resp,
                 statusLog, lateResults, deletedIn, api,
                 mgr>>

\* --------------------------------------- the WorkerManager called directly
\* The calls the repository's tests make on a WorkerManager of their own.  An
\* entry of mgr.objects is a Worker object w with the position pc of its
\* start() ("build", "startup", "resolved", "rejected"), the statuses it has
\* had, whether a stop() of the manager has completed on it, how a
\* waitUntilReady() called on it stands ("none", "polling", "ready", "failed",
\* "timeout") and the tick at which that call was made.

\* The options of the test: a mock path, null commands.
StartOptions(type) ==
  [extractPath |-> <<"mock", "path">>, type |-> type,
   buildCommand |-> Null, startCommand |-> Null]

StartTypes == {"static"}

\* A stop that leaves the stopped worker in the map.
ManagerStopKeepsEntry(m, id, times) ==
  IF id \notin DOMAIN m.workers THEN m
  ELSE LET i == m.workers[id]
       IN [m EXCEPT !.objects[i].w = WorkerStop(@),
                    !.objects[i].hist = @ \o <<"stopping", "stopped">>,
                    !.objects[i].stopDone = TRUE]

\* WorkerManager.stop(workerId), called `times` times in a row within one
\* task: each call finds the worker and runs Worker.stop before any of them
\* resumes to delete the entry.
ManagerStop(m, id, times) ==
  IF id \notin DOMAIN m.workers THEN m
  ELSE LET i == m.workers[id]
           o == m.objects[i]
       IN [m EXCEPT
             !.objects[i] =
               [o EXCEPT !.w = WorkerStop(@),
                         !.hist = IF times = 1 THEN @ \o <<"stopping", "stopped">>
                                  ELSE @ \o <<"stopping", "stopped", "stopping", "stopped">>,
                         !.stopDone = TRUE],
             !.workers = MapDelete(@, id)]

\* WorkerManager.start(options) up to simulateBuild's timer.
MgrStart(r, type) ==
  /\ Len(mgr.objects) < MaxStarts
  /\ LET w == WorkerBeginStart(NewWorker(r, mgr.nextPort, StartOptions(type)), now)
         o == [w |-> w, pc |-> "build", hist |-> <<"created", "starting">>,
               stopDone |-> FALSE, wait |-> "none", waitAt |-> 0]
     IN mgr' = [mgr EXCEPT !.nextPort = @ + 1,
                          !.objects = Append(@, o),
                          !.workers = MapSet(@, w.id, Len(mgr.objects) + 1),
                          !.last = [NoManagerCall EXCEPT !.op = "start", !.id = w.id]]
  /\ UNCHANGED <<runs, workers, nextPort, wobj, wpc, timerAt, pc, err, upload, dirs,
                 extractedProjects, rmPending, previewRuns, previewWorkers, now, resp,
                 statusLog, lateResults, deletedIn, call, api>>

\* The first start made on the manager.
MgrStartFirst(r, type) ==
  /\ mgr.objects = << >>
  /\ MgrStart(r, type)

\* simulateBuild's timer of the i-th Worker runs: the build throws (Worker.start
\* sets failed, WorkerManager.start deletes the entry under the worker's id and
\* rejects) or simulateStart arms its timer.
MgrBuildTimer(i, fails) ==
  /\ i \in 1..Len(mgr.objects)
  /\ mgr.objects[i].pc = "build"
  /\ mgr' = IF fails
            THEN [mgr EXCEPT !.objects[i].w = WorkerFailed(@),
                             !.objects[i].hist = Append(@, "failed"),
                             !.objects[i].pc = "rejected",
                             !.workers = MapDelete(@, mgr.objects[i].w.id),
                             !.last = NoManagerCall]
            ELSE [mgr EXCEPT !.objects[i].pc = "startup", !.last = NoManagerCall]
  /\ UNCHANGED <<runs, workers, nextPort, wobj, wpc, timerAt, pc, err, upload, dirs,
                 extractedProjects, rmPending, previewRuns, previewWorkers, now, resp,
                 statusLog, lateResults, deletedIn, call, api>>

\* simulateStart's timer of the i-th Worker runs: the health check is armed,
\* Worker.start sets running and WorkerManager.start resolves.
MgrStartTimer(i) ==
  /\ i \in 1..Len(mgr.objects)
  /\ mgr.objects[i].pc = "startup"
  /\ mgr' = [mgr EXCEPT !.objects[i].w = WorkerRunning(WorkerArmHealthCheck(@)),
                        !.objects[i].hist = Append(@, "running"),
                        !.objects[i].pc = "resolved",
                        !.last = NoManagerCall]
  /\ UNCHANGED <<runs, workers, nextPort, wobj, wpc, timerAt, pc, err, upload, dirs,
                 extractedProjects, rmPending, previewRuns, previewWorkers, now, resp,
                 statusLog, lateResults, deletedIn, call, api>>

\* stop(workerId), once or twice in a row.
MgrStop(id, times) ==
  /\ mgr' = [ManagerStop(mgr, id, times) EXCEPT
               !.last = [NoManagerCall EXCEPT
                           !.op = "stop", !.id = id, !.times = times,
                           !.was = IF id \in DOMAIN mgr.workers
                                   THEN mgr.objects[mgr.workers[id]].w.status
                                   ELSE "unknown"]]
  /\ mgr' # mgr
  /\ UNCHANGED <<runs, workers, nextPort, wobj, wpc, timerAt, pc, err, upload, dirs,
                 extractedProjects, rmPending, previewRuns, previewWorkers, now, resp,
                 statusLog, lateResults, deletedIn, call, api>>

\* getContent(path) on the i-th Worker.
MgrGetContent(i, path) ==
  /\ i \in 1..Len(mgr.objects)
  /\ mgr' = [mgr EXCEPT
               !.last = [NoManagerCall EXCEPT
                           !.op = "getContent", !.id = mgr.objects[i].w.id,
                           !.times = i, !.was = mgr.objects[i].w.status,
                           !.error = GetContent(mgr.objects[i].w, path).error,
                           !.content = GetContent(mgr.objects[i].w, path).content]]
  /\ mgr' # mgr
  /\ UNCHANGED <<runs, workers, nextPort, wobj, wpc, timerAt, pc, err, upload, dirs,
                 extractedProjects, rmPending, previewRuns, previewWorkers, now, resp,
                 statusLog, lateResults, deletedIn, call, api>>

\* One evaluation of waitUntilReady's loop on a worker whose call was made at
\* tick `at`: the loop is left when the status is running or failed; inside
\* the loop the call throws once more than `timeout` ms have passed (late: the
\* part of the current tick that has passed is enough for that), else it
\* sleeps for another poll interval.
WaitStep(w, at, t, late, timeout) ==
  IF w.status # "running" /\ w.status # "failed"
  THEN IF \/ (t - at) * MsPerTick > timeout
          \/ late /\ (t - at + 1) * MsPerTick > timeout
       THEN "timeout"
       ELSE "polling"
  ELSE IF w.status = "failed" THEN "failed"
  ELSE "ready"

\* A waitUntilReady whose timeout stops the worker.
WaitOutcomeStopsOnTimeout(m, i, outcome) ==
  IF outcome = "timeout"
  THEN [ManagerStop(m, m.objects[i].w.id, 1) EXCEPT !.objects[i].wait = outcome]
  ELSE [m EXCEPT !.objects[i].wait = outcome]

\* What waitUntilReady on the i-th Worker writes: nothing of the worker or of
\* the manager, only how the call stands.
WaitOutcome(m, i, outcome) == [m EXCEPT !.objects[i].wait = outcome]

\* worker.waitUntilReady() is called on the i-th Worker, with the default
\* timeout: the loop is evaluated for the first time.
MgrWait(i) ==
  /\ i \in 1..Len(mgr.objects)
  /\ mgr.objects[i].wait = "none"
  /\ mgr' = [WaitOutcome(mgr, i, WaitStep(mgr.objects[i].w, now, now, FALSE, ReadyTimeout))
               EXCEPT !.objects[i].waitAt = now,
                      !.last = [NoManagerCall EXCEPT
                                  !.op = "waitUntilReady", !.id = mgr.objects[i].w.id,
                                  !.times = i, !.was = mgr.objects[i].w.status]]
  /\ UNCHANGED <<runs, workers, nextPort, wobj, wpc, timerAt, pc, err, upload, dirs,
                 extractedProjects, rmPending, previewRuns, previewWorkers, now, resp,
                 statusLog, lateResults, deletedIn, call, api>>

\* The poll timer of a waitUntilReady on the i-th Worker runs: the loop is
\* evaluated again.
MgrPoll(i, late) ==
  /\ i \in 1..Len(mgr.objects)
  /\ mgr.objects[i].wait = "polling"
  /\ mgr' = [WaitOutcome(mgr, i, WaitStep(mgr.objects[i].w, mgr.objects[i].waitAt, now,
                                          late, ReadyTimeout))
               EXCEPT !.last = [NoManagerCall EXCEPT
                                  !.op = "poll", !.id = mgr.objects[i].w.id,
                                  !.times = i, !.was = mgr.objects[i].w.status]]
  /\ mgr' # mgr
  /\ UNCHANGED <<runs, workers, nextPort, wobj, wpc, timerAt, pc, err, upload, dirs,
                 extractedProjects, rmPending, previewRuns, previewWorkers, now, resp,
                 statusLog, lateResults, deletedIn, call, api>>

\* The age-based sweep: cleanup(maxAge) called on the registry of routes/runs.
Sweep(maxAge) ==
  /\ runs' = StoreCleanup(runs, maxAge, now)
  /\ UNCHANGED <<workers, nextPort, wobj, wpc, timerAt, pc, err, upload, dirs,
                 extractedProjects, rmPending, previewRuns, previewWorkers, now, resp,
                 statusLog, lateResults, deletedIn, call, api,
                 mgr>>

\* The tasks that follow a submission.
Steps ==
  \/ \E r \in RunIds : ExtractRejected(r)
  \/ \E r \in RunIds : ExtractFiles(r)
  \/ \E r \in RunIds : Classified(r)
  \/ \E r \in RunIds : \E fails \in BOOLEAN : BuildTimerFires(r, fails)
  \/ \E r \in RunIds : StartTimerFires(r)
  \/ \E r \in RunIds : DeleteRun(r)
  \/ \E r \in RunIds : CleanupDone(r)

Next ==
  \/ \E r \in RunIds : \E a \in Uploads : Submit(r, a)
  \/ Steps

\* The orchestrator: uploads, their processing and deletions, all within one
\* clock tick.
Spec == Init /\ [][Next]_vars

\* The orchestrator on projects with a package.json, among them one whose
\* package.json does not parse.
ManifestUploads == {ReactZip, BrokenManifestZip, EvilZip}
ManifestNext ==
  \/ \E r \in RunIds : \E a \in ManifestUploads : Submit(r, a)
  \/ Steps
ManifestSpec == Init /\ [][ManifestNext]_vars

\* The orchestrator with the clock running.
TimedNext == Next \/ Tick
TimedSpec == Init /\ [][TimedNext]_vars

\* The orchestrator together with requests to the preview gateway.
GatewayNext == Next \/ \E r \in RunIds : \E path \in ReqPaths : PreviewGet(r, path)
GatewaySpec == Init /\ [][GatewayNext]_vars

\* A RunStore under direct calls, with the clock running.
StoreNext ==
  \/ \E id \in RunIds : RunStoreCreate(id)
  \/ \E id \in RunIds : \E fields \in StoreFields : RunStoreUpdate(id, fields)
  \/ \E id \in RunIds : RunStoreDelete(id)
  \/ \E maxAge \in CleanupAges : RunStoreCleanup(maxAge)
  \/ Tick
StoreSpec == Init /\ [][StoreNext]_vars

\* A RunStore under create, update and delete, with updates that carry an id.
IdNext ==
  \/ \E id \in RunIds : RunStoreCreate(id)
  \/ \E id \in RunIds : \E fields \in IdFields : RunStoreUpdate(id, fields)
  \/ \E id \in RunIds : RunStoreDelete(id)
IdSpec == Init /\ [][IdNext]_vars

\* The orchestrator with the clock running and the age-based sweep of its
\* registry.
SweepNext == TimedNext \/ \E maxAge \in CleanupAges : Sweep(maxAge)
SweepSpec == Init /\ [][SweepNext]_vars

\* The orchestrator together with status requests.
ApiNext ==
  \/ Next
  \/ \E id \in RunIds : GetRun(id)
  \/ \E files \in {{}} \cup {{a} : a \in Uploads} : SubmitRejected(files)
ApiSpec == Init /\ [][ApiNext]_vars

\* analyzeProject under direct calls.
AnalyzeNext ==
  \E dir \in {NoDirectory} \cup {Directory(t) : t \in Trees} :
    \E manifest \in Manifests : Analyze(dir, manifest)
AnalyzeSpec == Init /\ [][AnalyzeNext]_vars

\* A WorkerManager under direct calls.
ManagerNext ==
  \/ \E r \in RunIds : \E type \in StartTypes : MgrStart(r, type)
  \/ \E i \in 1..MaxStarts : \E fails \in BOOLEAN : MgrBuildTimer(i, fails)
  \/ \E i \in 1..MaxStarts : MgrStartTimer(i)
  \/ \E r \in RunIds : \E times \in {1, 2} : MgrStop(WorkerId(r), times)
  \/ \E i \in 1..MaxStarts : \E path \in {IndexPath, JsPath} : MgrGetContent(i, path)
ManagerSpec == Init /\ [][ManagerNext]_vars

\* A WorkerManager whose one worker is waited for while it is started and
\* stopped, with the clock.
WaitNext ==
  \/ \E r \in RunIds : \E type \in StartTypes : MgrStartFirst(r, type)
  \/ \E i \in 1..MaxStarts : \E fails \in BOOLEAN : MgrBuildTimer(i, fails)
  \/ \E i \in 1..MaxStarts : MgrStartTimer(i)
  \/ \E r \in RunIds : MgrStop(WorkerId(r), 1)
  \/ \E i \in 1..MaxStarts : MgrWait(i)
  \/ \E i \in 1..MaxStarts : \E late \in BOOLEAN : MgrPoll(i, late)
  \/ Tick
WaitSpec == Init /\ [][WaitNext]_vars

\* The preview route handler on its own, as a function of what its store and
\* its worker manager hold: one run, building or ready, of any project type,
\* with or without a recorded worker, the manager holding that worker (running)
\* or nothing.
GatewayTypes ==
  {"static", "node", "react", "vue", "angular", "python", "docker", "unknown"}

GatewayWorker(id, type) ==
  [NewWorker(id, FirstPort, [extractPath |-> ExtractPath(id), type |-> type,
                             buildCommand |-> Null, startCommand |-> Null])
     EXCEPT !.status = "running", !.startTime = 0, !.healthCheckInterval = "active"]

GatewayRun(id, status, typed, type, withWorker) ==
  Merge(Merge(Merge([id |-> id, status |-> status, createdAt |-> 0, updatedAt |-> 0],
                    IF typed THEN [projectType |-> type] ELSE << >>),
              IF withWorker
              THEN [workerId |-> WorkerId(id), workerPort |-> FirstPort]
              ELSE << >>),
        IF status = "ready"
        THEN [previewUrl |-> <<"/preview/", id>>, readyAt |-> 0]
        ELSE << >>)

PreviewInit ==
  /\ OrchestratorInit
  /\ \E id \in RunIds, status \in {"building", "ready"}, typed \in BOOLEAN,
        type \in GatewayTypes, withWorker \in BOOLEAN, managed \in BOOLEAN :
       /\ previewRuns = StoreCreate(NewStore, GatewayRun(id, status, typed, type, withWorker))
       /\ previewWorkers = IF managed
                           THEN MapSet(<< >>, WorkerId(id), GatewayWorker(id, type))
                           ELSE << >>

PreviewNext == \E r \in RunIds : \E path \in ReqPaths : PreviewGet(r, path)
PreviewSpec == PreviewInit /\ [][PreviewNext]_vars

\* The preview route handler asked for paths of every kind of extension.
Extensions ==
  {".html", ".js", ".css", ".json", ".png", ".jpg", ".jpeg", ".gif", ".svg", ".webp",
   ".txt"}
TypePaths ==
  {EmptyPath, [stem |-> "docs", ext |-> "", dir |-> TRUE]}
    \cup {[stem |-> "file", ext |-> e, dir |-> FALSE] : e \in Extensions}
TypeNext == \E r \in RunIds : \E path \in TypePaths : PreviewGet(r, path)
TypeSpec == PreviewInit /\ [][TypeNext]_vars

\* ------------------------------------------------------------------ claims

Stored(r) == StoreHas(runs, r)

StatusRank(st) ==
  CASE st = "queued" -> 0
    [] st = "extracting" -> 1
    [] st = "building" -> 2
    [] st \in {"ready", "failed"} -> 3

\* C1: the status values a run's registry entry takes never decrease in the
\* order queued < extracting < building < {ready, failed}, and nothing but the
\* same value follows ready or failed.
C1_StatusMonotonic ==
  \A r \in RunIds : \A i \in 1..Len(statusLog[r]) : \A j \in i..Len(statusLog[r]) :
    /\ StatusRank(statusLog[r][i]) <= StatusRank(statusLog[r][j])
    /\ statusLog[r][i] \in {"ready", "failed"} => statusLog[r][j] = statusLog[r][i]

\* A run went through every step up to ready.
C1_Witness ==
  \E r \in RunIds :
    statusLog[r] = <<"queued", "extracting", "building", "building", "ready">>

\* C2: a stored run has a previewUrl exactly when it is ready and an error
\* exactly when it is failed.
C2_UrlAndErrorMatchStatus ==
  \A r \in RunIds : Stored(r) =>
    /\ Has(runs[r], "previewUrl") <=> runs[r].status = "ready"
    /\ Has(runs[r], "error") <=> runs[r].status = "failed"

\* One run is ready with its URL while another is failed with its error.
C2_Witness ==
  \E r, q \in RunIds :
    /\ Stored(r) /\ runs[r].status = "ready" /\ Has(runs[r], "previewUrl")
    /\ Stored(q) /\ runs[q].status = "failed" /\ Has(runs[q], "error")

\* C3: a stored run with workerId or workerPort is building, ready or failed,
\* and one with projectType or projectInfo is neither queued nor extracting.
C3_SnapshotMatchesStep ==
  \A r \in RunIds : Stored(r) =>
    /\ (Has(runs[r], "workerId") \/ Has(runs[r], "workerPort"))
         => runs[r].status \in {"building", "ready", "failed"}
    /\ (Has(runs[r], "projectType") \/ Has(runs[r], "projectInfo"))
         => runs[r].status \notin {"queued", "extracting"}

\* A run is classified and building, its worker not yet recorded.
C3_Witness ==
  \E r \in RunIds :
    /\ Stored(r) /\ runs[r].status = "building"
    /\ Has(runs[r], "projectType") /\ ~Has(runs[r], "workerId")

\* No task of the program is pending.
Quiescent ==
  /\ \A r \in RunIds : pc[r] \in {"idle", "done"} /\ wpc[r] \in {"none", "settled"}
  /\ rmPending = {}

\* The manager of routes/runs holds a starting or running worker of run r.
LiveWorkerHeld(r) ==
  \E id \in DOMAIN workers :
    /\ TheWorker(workers[id]).runId = r
    /\ TheWorker(workers[id]).status \in {"starting", "running"}

\* C4: once the system is quiescent, the manager holds no starting or running
\* worker of a run that was deleted while building.
C4_DeletedBuildingRunHasNoLiveWorker ==
  \A r \in RunIds : (deletedIn[r] = "building" /\ Quiescent) => ~LiveWorkerHeld(r)

\* C5: a deleted run stays absent from the registry, and every update
\* processRun makes on it afterwards returns null.
C5_DeletedRunStaysAbsent ==
  \A r \in RunIds : deletedIn[r] # "never" =>
    /\ ~Stored(r)
    /\ \A res \in lateResults[r] : res = {}

\* processRun finished on a run that was deleted under it.
C5_Witness ==
  \E r \in RunIds :
    deletedIn[r] \in {"extracting", "building"} /\ pc[r] = "done" /\ lateResults[r] # {}

\* C6: a run of a valid static-HTML archive that is never deleted ends ready,
\* with a previewUrl and projectType "static" (stated on finished runs).
C6_StaticRunEndsReady ==
  \A r \in RunIds :
    (pc[r] = "done" /\ upload[r] = {StaticZip} /\ deletedIn[r] = "never") =>
      /\ Stored(r) /\ runs[r].status = "ready"
      /\ Has(runs[r], "previewUrl") /\ runs[r].previewUrl # << >>
      /\ Has(runs[r], "projectType") /\ runs[r].projectType = "static"

\* Milliseconds that certainly passed between Worker.start and the last
\* registry write of the run's processRun.
StartToLastWrite(r) == (runs[r].updatedAt - TheWorker(r).startTime) * MsPerTick

\* C7: when the worker's build and start take longer than the readiness
\* timeout, the run ends failed with the timeout error.
C7_SlowStartFailsWithTimeout ==
  \A r \in RunIds :
    (/\ pc[r] = "done" /\ Stored(r) /\ wobj[r] # {}
     /\ TheWorker(r).status = "running"
     /\ StartToLastWrite(r) > ReadyTimeout) =>
      /\ runs[r].status = "failed"
      /\ runs[r].error = <<"Worker startup timeout">>

\* C8: a finished run that is still stored is ready or failed, and if its
\* processing failed it is failed with the failure's message.
C8_FailureIsRecorded ==
  \A r \in RunIds : (pc[r] = "done" /\ Stored(r)) =>
    /\ runs[r].status \in {"ready", "failed"}
    /\ err[r] # NoError =>
         /\ runs[r].status = "failed"
         /\ Has(runs[r], "error") /\ runs[r].error = err[r]
    /\ err[r] = NoError => runs[r].status = "ready"

\* One run failed in extraction and another in provisioning, both recorded.
C8_Witness ==
  \E r, q \in RunIds :
    /\ pc[r] = "done" /\ Stored(r) /\ runs[r].status = "failed"
    /\ runs[r].error = <<"Unsafe file path in ZIP", <<"..", "evil">> >>
    /\ pc[q] = "done" /\ Stored(q) /\ runs[q].status = "failed"
    /\ runs[q].error = <<"Simulated build failure">>

\* C9: the gateway answers not-found exactly for ids the orchestrator does not
\* hold, and not-ready, with the status in the body, for held runs that are
\* not ready.
C9_GatewaySeesOrchestratorRuns ==
  resp.id \in RunIds =>
    /\ resp.status = 404 <=> resp.held = "absent"
    /\ resp.held \notin {"absent", "ready"} =>
         /\ resp.status = 503
         /\ resp.body = <<"Preview Not Ready", resp.held>>

C11_BodyIsWorkerContent ==
  (/\ resp.id \in RunIds /\ resp.held = "ready"
   /\ Stored(resp.id) /\ Has(runs[resp.id], "workerId")
   /\ runs[resp.id].workerId \in DOMAIN workers) =>
    resp.body = GenerateSimulatedContent(TheWorker(workers[runs[resp.id].workerId]),
                                         resp.path)

\* C12: update on an id the store does not hold returns null and leaves the
\* store as it was.
C12_UpdateOfMissingIdIsNoOp ==
  (call.op = "update" /\ call.id \notin DOMAIN call.before) =>
    /\ call.result = {}
    /\ runs = call.before

\* update with fields was called for a missing id on a store holding a run.
C12_Witness ==
  /\ call.op = "update" /\ call.id \notin DOMAIN call.before
  /\ call.before # << >> /\ call.fields # << >>

\* C13: after create(run), get(run.id) is a run with that id; after update on a
\* stored id, get(id) has every field passed (other than updatedAt) with its
\* new value, every other field but updatedAt as before, and updatedAt set to
\* the time of the call.
C13_CreateGetUpdateMerge ==
  /\ call.op = "create" => \E run \in StoreGet(runs, call.id) : run.id = call.id
  /\ (call.op = "update" /\ call.id \in DOMAIN call.before) =>
       \E run \in StoreGet(runs, call.id) :
         LET old == call.before[call.id] IN
         /\ DOMAIN run = (DOMAIN old) \cup (DOMAIN call.fields) \cup {"updatedAt"}
         /\ \A k \in (DOMAIN call.fields) \ {"updatedAt"} : run[k] = call.fields[k]
         /\ \A k \in (DOMAIN old) \ ((DOMAIN call.fields) \cup {"updatedAt"}) :
              run[k] = old[k]
         /\ run.updatedAt = call.at
         /\ call.result = {run}

\* A run updated before was updated again, later, to ready.
C13_Witness ==
  /\ call.op = "update" /\ call.id \in DOMAIN call.before
  /\ Has(call.before[call.id], "updatedAt")
  /\ call.before[call.id].updatedAt < call.at
  /\ call.before[call.id].status = "building"
  /\ Has(call.fields, "status") /\ call.fields.status = "ready"

\* C14: cleanup(maxAge) removes exactly the runs created more than maxAge
\* before the call, returns how many it removed, and leaves the others as
\* they were.
C14_CleanupRemovesExactlyOld ==
  call.op = "cleanup" =>
    LET old == {id \in DOMAIN call.before :
                  (call.at - call.before[id].createdAt) * MsPerTick > call.maxAge}
    IN /\ DOMAIN runs = (DOMAIN call.before) \ old
       /\ call.count = Cardinality(old)
       /\ \A id \in DOMAIN runs : runs[id] = call.before[id]

\* A sweep removed one run and kept another that was exactly maxAge old.
C14_Witness ==
  /\ call.op = "cleanup" /\ call.count = 1
  /\ \E id \in DOMAIN runs : (call.at - runs[id].createdAt) * MsPerTick = call.maxAge
  /\ call.maxAge > 0

\* Run r was removed from the registry by the sweep: it was submitted, it is
\* gone, and no DELETE removed it.
Swept(r) == pc[r] # "idle" /\ ~Stored(r) /\ deletedIn[r] = "never"

\* C15: once the system is quiescent, no extraction directory remains for a
\* run the sweep removed.
C15_SweptRunLeavesNoFiles ==
  \A r \in RunIds : (Swept(r) /\ Quiescent) => r \notin dirs

\* C16: once the system is quiescent, no extraction directory remains for a
\* run that DELETE removed, whatever step its processing was at.
C16_DeletedRunLeavesNoFiles ==
  \A r \in RunIds : (deletedIn[r] # "never" /\ Quiescent) => r \notin dirs

\* The fields whose value is a path of the server's filesystem: the uploaded
\* archive's path and the extraction directory.
PathFields == {"filePath", "extractPath", "projectPath"}

\* C17: the record GET /api/runs/:id returns has no field holding an internal
\* path, neither at the top nor inside projectInfo.
C17_StatusRecordHidesPaths ==
  (api.method = "GET" /\ api.status = 200) =>
    \A run \in api.body :
      /\ (DOMAIN run) \cap PathFields = {}
      /\ Has(run, "projectInfo") => (DOMAIN run.projectInfo) \cap PathFields = {}

\* An upload breaches a limit of POST /api/runs: it is not declared a zip, it
\* is larger than the size limit, or its archive has more entries than the
\* maximum.
BreachesLimit(file) ==
  \/ (file.mimetype # "application/zip" /\ ~file.zipName)
  \/ file.size > MaxSize
  \/ file.count > MaxFiles

\* C18: a run is created (the POST answered 201) only for an upload that
\* breaches no limit, and a POST answered with an error is answered 400.
C18_LimitBreachIsRejected ==
  /\ \A r \in RunIds : upload[r] # {} => ~BreachesLimit(TheUpload(r))
  /\ (api.method = "POST" /\ api.status # 201) => api.status = 400

\* An archive extract must refuse: too many entries, or an entry that is
\* absolute, has a ".." segment or is nested deeper than the maximum.
Unsafe(a) ==
  \/ a.count > MaxFiles
  \/ \E i \in 1..Len(a.entries) :
       LET e == a.entries[i] IN
       \/ (Len(e) > 0 /\ e[1] = "")
       \/ \E j \in 1..Len(e) : e[j] = ".."
       \/ Len(e) > MaxDepth

\* The files on disk that extraction of run r's archive wrote.
WrittenFiles(r) == IF r \in dirs THEN ExtractAllTo(TheUpload(r)) ELSE {}

\* C19: for an unsafe archive the destination directory never exists, nothing
\* is written and extract fails; and every file extraction writes lies inside
\* the destination root of its run.
C19_UnsafeArchiveWritesNothing ==
  /\ \A r \in RunIds : (upload[r] # {} /\ Unsafe(TheUpload(r))) =>
       /\ r \notin dirs
       /\ WrittenFiles(r) = {}
       /\ pc[r] \in {"cleanup", "done"}
       /\ err[r] # NoError
  /\ \A r \in RunIds : \A f \in WrittenFiles(r) :
       Len(f) > 1 /\ f[1] = "<extractPath>"

\* The extraction of an archive holding "../evil" has failed while the files
\* of a valid archive are on disk.
C19_Witness ==
  \E r, q \in RunIds :
    /\ upload[r] = {EvilZip} /\ pc[r] = "done"
    /\ err[r] = <<"Unsafe file path in ZIP", <<"..", "evil">> >>
    /\ WrittenFiles(q) # {}

\* The tree holds the root file `name`.
InRoot(tree, name) == \E i \in 1..Len(tree) : tree[i] = <<name>>

\* The tree holds an .html file, at any depth.
HtmlInTree(tree) ==
  \E i \in 1..Len(tree) : tree[i][Len(tree[i])] \in {"index.html", "about.html"}

\* The tree holds an .html file outside the directories the listing skips.
HtmlInListing(tree) ==
  \E i \in 1..Len(tree) :
    /\ tree[i][Len(tree[i])] \in {"index.html", "about.html"}
    /\ \A j \in 1..(Len(tree[i]) - 1) :
         tree[i][j] \notin {"node_modules", ".git", "__pycache__", ".pytest_cache"}

\* The first-match classification, with `html` saying whether the static rule
\* matches.
FirstMatch(tree, info, html) ==
  IF InRoot(tree, "package.json") THEN info.type \in {"node", "react", "vue", "angular"}
  ELSE IF InRoot(tree, "requirements.txt") \/ InRoot(tree, "Pipfile")
    THEN info.type = "python"
  ELSE IF InRoot(tree, "Dockerfile") THEN info.type = "docker"
  ELSE IF html THEN info.type = "static"
  ELSE /\ info.type = "unknown"
       /\ info.buildCommand = Null /\ info.startCommand = Null

\* C20 as stated: first match wins, the static rule matching an .html file
\* anywhere in the tree.
C20_FirstMatchOverTree ==
  call.op = "analyzeProject" =>
    \A info \in call.result : FirstMatch(call.entries, info, HtmlInTree(call.entries))

\* C20, amended: first match wins, the static rule matching an .html file
\* anywhere in the tree outside the skipped directories (node_modules, .git,
\* __pycache__, .pytest_cache).
C20_FirstMatchOverListing ==
  call.op = "analyzeProject" =>
    \A info \in call.result : FirstMatch(call.entries, info, HtmlInListing(call.entries))

\* A tree with package.json, requirements.txt, a Dockerfile and HTML files was
\* classified react.
C20_Witness ==
  /\ call.op = "analyzeProject"
  /\ InRoot(call.entries, "package.json") /\ InRoot(call.entries, "requirements.txt")
  /\ InRoot(call.entries, "Dockerfile") /\ HtmlInListing(call.entries)
  /\ \E info \in call.result : info.type = "react"

\* C21: with a package.json the type is react if react is among the
\* dependencies or devDependencies, else vue, else angular for @angular/core,
\* else the node server profile if express, fastify or koa is among them, else
\* generic node.
C21_FrameworkByDependencies ==
  (call.op = "analyzeProject" /\ InRoot(call.entries, "package.json")
     /\ call.manifest.valid) =>
    \A info \in call.result :
      LET all == call.manifest.dependencies \cup call.manifest.devDependencies IN
      IF "react" \in all THEN info.type = "react"
      ELSE IF "vue" \in all THEN info.type = "vue"
      ELSE IF "@angular/core" \in all THEN info.type = "angular"
      ELSE IF all \cap {"express", "fastify", "koa"} # {}
        THEN info.type = "node" /\ info.framework = "Node.js Server"
      ELSE info.type = "node" /\ info.framework = "Node.js"

\* Run r's archive is safe and has a root package.json that does not parse.
BrokenManifest(r) ==
  /\ upload[r] # {} /\ ValidateArchive(TheUpload(r)) = NoError
  /\ InRoot(TheUpload(r).entries, "package.json")
  /\ ~TheUpload(r).manifest.valid

\* C22: a run whose package.json does not parse is classified all the same,
\* as generic node with the fallback start command and an empty dependency
\* list, and its processing fails for no reason but a failed build.
C22_BrokenManifestDegrades ==
  \A r \in RunIds : BrokenManifest(r) =>
    /\ err[r] \in {NoError, <<"Simulated build failure">>}
    /\ (pc[r] \in {"provision", "done"} /\ Stored(r)) =>
         /\ Has(runs[r], "projectInfo")
         /\ runs[r].projectType = "node"
         /\ runs[r].projectInfo.framework = "Node.js"
         /\ runs[r].projectInfo.buildCommand = Null
         /\ runs[r].projectInfo.startCommand = "node index.js"
         /\ runs[r].projectInfo.dependencies = {}

\* A run with an unparsable package.json is ready.
C22_Witness ==
  \E r \in RunIds :
    /\ BrokenManifest(r) /\ pc[r] = "done" /\ Stored(r)
    /\ runs[r].status = "ready" /\ runs[r].projectType = "node"

\* The first .html file of a listing.
FirstHtmlOf(files) ==
  LET at == {i \in 1..Len(files) :
               files[i][Len(files[i])] \in {"index.html", "about.html"}}
  IN files[CHOOSE i \in at : \A j \in at : i <= j]

\* C23: a static project's entryPoint is index.html when the listing has a
\* file index.html and the first HTML file of the listing otherwise, and it is
\* a file of the listing.
C23_EntryPointIsListedFile ==
  call.op = "analyzeProject" =>
    \A info \in call.result : info.type = "static" =>
      /\ info.entryPoint = IF InRoot(info.files, "index.html")
                           THEN <<"index.html">>
                           ELSE FirstHtmlOf(info.files)
      /\ \E i \in 1..Len(info.files) : info.files[i] = info.entryPoint

\* C24: analyzeProject resolves with type unknown for a project path that
\* yields no package.json, requirements.txt, Pipfile, Dockerfile or HTML file,
\* a path without a directory included.
C24_NoMarkerGivesUnknown ==
  (/\ call.op = "analyzeProject"
   /\ \A name \in {"package.json", "requirements.txt", "Pipfile", "Dockerfile"} :
        ~InRoot(call.entries, name)
   /\ ~HtmlInListing(call.entries)) =>
    /\ call.error = NoError
    /\ \E info \in call.result : info.type = "unknown"

\* What a WorkerManager and its Worker objects hold.
ManagerState(m) ==
  [workers |-> m.workers, nextPort |-> m.nextPort,
   objects |-> [i \in 1..Len(m.objects) |-> m.objects[i].w]]

\* C25: stop(workerId) on an id the manager does not hold (never started, or
\* already stopped) changes nothing; stopping a worker twice, one call after
\* the other or both in one task, leaves what one stop leaves: the worker
\* stopped and absent from the manager.
C25_StopIsIdempotent ==
  /\ \A r \in RunIds :
       LET id == WorkerId(r)
           once == ManagerStop(mgr, id, 1)
       IN /\ id \notin DOMAIN mgr.workers => ManagerState(once) = ManagerState(mgr)
          /\ ManagerState(ManagerStop(once, id, 1)) = ManagerState(once)
          /\ ManagerState(ManagerStop(mgr, id, 2)) = ManagerState(once)
          /\ id \notin DOMAIN once.workers
          /\ id \in DOMAIN mgr.workers =>
               once.objects[mgr.workers[id]].w.status = "stopped"
  /\ mgr.last.op = "stop" =>
       /\ mgr.last.id \notin DOMAIN mgr.workers
       /\ mgr.last.was # "unknown" =>
            \E i \in 1..Len(mgr.objects) :
              /\ mgr.objects[i].w.id = mgr.last.id
              /\ mgr.objects[i].w.status = "stopped"
              /\ mgr.objects[i].stopDone

\* A running worker has been stopped twice in one task.
C25_Witness ==
  /\ mgr.last.op = "stop"
  /\ mgr.last.times = 2
  /\ mgr.last.was = "running"

\* The statuses a Worker takes.
WorkerStatuses == {"created", "starting", "running", "stopping", "stopped", "failed"}

\* C26: getContent(path) throws 'Worker not running' in every status but
\* running, and returns content exactly when the status is running.
C26_ContentOnlyWhenRunning ==
  /\ \A i \in 1..Len(mgr.objects) : \A st \in WorkerStatuses : \A path \in ReqPaths :
       LET w == [mgr.objects[i].w EXCEPT !.status = st]
           got == GetContent(w, path)
       IN IF st = "running"
          THEN got.error = NoError /\ got.content = GenerateSimulatedContent(w, path)
          ELSE got.error = <<"Worker not running">> /\ got.content = << >>
  /\ mgr.last.op = "getContent" =>
       IF mgr.last.was = "running"
       THEN mgr.last.error = NoError /\ mgr.last.content # << >>
       ELSE mgr.last.error = <<"Worker not running">> /\ mgr.last.content = << >>

\* getContent has been called on a worker that is starting, and on one that
\* is running.
C26_Witness ==
  /\ mgr.last.op = "getContent"
  /\ mgr.last.was = "starting"
  /\ \E i \in 1..Len(mgr.objects) : mgr.objects[i].w.status = "running"

\* A worker that is starting or running.
Live(w) == w.status \in {"starting", "running"}

\* C27: no two live Worker objects belong to one run id: start for a run id
\* whose worker is starting or running does not make a second worker.
C27_OneLiveWorkerPerRun ==
  \A i, j \in 1..Len(mgr.objects) :
    (/\ i # j
     /\ mgr.objects[i].w.runId = mgr.objects[j].w.runId
     /\ Live(mgr.objects[i].w))
    => ~Live(mgr.objects[j].w)

\* C28: a start for a static project with null commands, the only call made
\* on the manager, does not reject; once resolved the worker's id contains the
\* run id, the worker is running and get(worker.id) returns it; after
\* stop(worker.id) on the resolved worker, get(worker.id) is absent and the
\* worker is stopped.
C28_StaticStartThenStop ==
  Len(mgr.objects) = 1 =>
    LET o == mgr.objects[1]
        known == o.w.id \in DOMAIN mgr.workers
    IN (/\ o.w.projectType = "static"
        /\ o.w.buildCommand = Null
        /\ o.w.startCommand = Null)
       => /\ ~o.stopDone => o.pc # "rejected"
          /\ (o.pc = "resolved" /\ ~o.stopDone) =>
               /\ o.w.id = WorkerId(o.w.runId)
               /\ o.w.status = "running"
               /\ known
          /\ (o.pc = "resolved" /\ o.stopDone /\ o.hist[3] = "running") =>
               /\ ~known
               /\ o.w.status = "stopped"

\* The edges of a Worker's status.
StatusEdges ==
  {<<"created", "starting">>, <<"starting", "running">>, <<"starting", "failed">>,
   <<"running", "stopping">>, <<"stopping", "stopped">>}

\* C29: whatever the interleaving of start and stop on a worker, its status
\* changes along created -> starting, starting -> running, starting -> failed,
\* running -> stopping and stopping -> stopped only: a stopped worker never
\* becomes running or failed.
C29_StatusFollowsEdges ==
  \A i \in 1..Len(mgr.objects) :
    \A k \in 1..(Len(mgr.objects[i].hist) - 1) :
      <<mgr.objects[i].hist[k], mgr.objects[i].hist[k + 1]>> \in StatusEdges

\* C30: a worker on which a stop of the manager has completed has no active
\* health-check timer, a stop issued during its build or startup included.
C30_StoppedWorkerHasNoTimer ==
  \A i \in 1..Len(mgr.objects) :
    mgr.objects[i].stopDone => mgr.objects[i].w.healthCheckInterval # "active"

\* C31: an evaluation of waitUntilReady's loop leaves the call polling only
\* when it found the worker starting; it makes the call succeed when it found
\* the worker running, and fail when it found any other status, a worker
\* stopped during the wait included.
C31_WaitEndsWhenNotStarting ==
  mgr.last.op \in {"waitUntilReady", "poll"} =>
    LET o == mgr.objects[mgr.last.times]
    IN /\ o.wait = "polling" => mgr.last.was = "starting"
       /\ mgr.last.was = "running" => o.wait = "ready"
       /\ mgr.last.was \notin {"starting", "running"} => o.wait \in {"failed", "timeout"}

\* C32: waitUntilReady changes neither the worker nor the manager: across the
\* call and each of its polls, whether it goes on, succeeds, fails or times
\* out, the manager's map and nextPort, every Worker's fields (status and
\* health-check timer included) and the position of every start() are what
\* they were.
C32_WaitLeavesWorkerAlone ==
  [][(mgr'.last.op \in {"waitUntilReady", "poll"} /\ mgr' # mgr) =>
       /\ ManagerState(mgr') = ManagerState(mgr)
       /\ Len(mgr'.objects) = Len(mgr.objects)
       /\ \A i \in 1..Len(mgr.objects) :
            /\ mgr'.objects[i].pc = mgr.objects[i].pc
            /\ mgr'.objects[i].hist = mgr.objects[i].hist
            /\ mgr'.objects[i].stopDone = mgr.objects[i].stopDone]_vars

\* A waitUntilReady has timed out on a worker whose start() is still in
\* flight.
C32_Witness ==
  \E i \in 1..Len(mgr.objects) :
    /\ mgr.objects[i].wait = "timeout"
    /\ mgr.objects[i].pc \in {"build", "startup"}
    /\ mgr.objects[i].w.status = "starting"

\* C33: the ports of the Workers a manager has created increase strictly in
\* the order of the start calls, so no two of them are equal, whether the
\* workers are starting, running, failed or stopped; the next port to be given
\* lies above them all.
C33_PortsIncrease ==
  /\ \A i, j \in 1..Len(mgr.objects) :
       i < j => mgr.objects[i].w.port < mgr.objects[j].w.port
  /\ \A i \in 1..Len(mgr.objects) : mgr.objects[i].w.port < mgr.nextPort

\* Two workers of one manager, the first stopped or failed, the second started
\* while the first start was still in flight or after it had settled.
C33_Witness ==
  /\ Len(mgr.objects) >= 2
  /\ mgr.objects[1].w.status \in {"stopped", "failed"}
  /\ mgr.objects[2].w.status \in {"starting", "running"}

\* C34: whatever create, update and delete calls have been made on the
\* RunStore, every stored run's id is the key it is stored under, an update
\* whose fields carry an id included.
C34_IdIsTheKey ==
  \A id \in DOMAIN runs : runs[id].id = id

\* The content type the extension of a path stands for.
TypeOfExtension(path) ==
  CASE path = EmptyPath \/ path.dir \/ path.ext = ".html" -> "text/html"
    [] path.ext = ".js" -> "application/javascript"
    [] path.ext = ".css" -> "text/css"
    [] path.ext = ".json" -> "application/json"
    [] path.ext = ".png" -> "image/png"
    [] path.ext \in {".jpg", ".jpeg"} -> "image/jpeg"
    [] path.ext = ".gif" -> "image/gif"
    [] path.ext = ".svg" -> "image/svg+xml"
    [] path.ext = ".webp" -> "image/webp"
    [] OTHER -> "text/plain"

StartRejected(r) == wobj[r] # {} /\ err[r] = <<"Simulated build failure">>

\* C36: once WorkerManager.start has rejected for a run, the worker's status
\* is failed, the manager holds no entry under the worker's id, and the run,
\* if the registry still holds it, is failed with no workerId.
C36_RejectedStartLeavesNoWorker ==
  \A r \in RunIds : StartRejected(r) =>
    /\ TheWorker(r).status = "failed"
    /\ TheWorker(r).id \notin DOMAIN workers
    /\ pc[r] = "done"
    /\ Stored(r) =>
         /\ runs[r].status = "failed"
         /\ ~Has(runs[r], "workerId")

\* A start has rejected for a run the registry holds, while another run's
\* worker is held by the manager.
C36_Witness ==
  \E r, q \in RunIds :
    /\ StartRejected(r) /\ Stored(r)
    /\ q # r /\ WorkerId(q) \in DOMAIN workers

\* C37: every worker the manager of routes/runs holds belongs to a run the
\* registry held when the worker was started: none belongs to a run that was
\* deleted while it was still extracting.
C37_NoWorkerForRunDeletedInExtraction ==
  \A id \in DOMAIN workers : deletedIn[workers[id]] \notin {"queued", "extracting"}

\* The manager entry under the id of run q's worker, if any.
ManagerEntry(m, q) == IF WorkerId(q) \in DOMAIN m THEN {m[WorkerId(q)]} ELSE {}

\* C38: a step of the orchestrator, a failure or a deletion changes the
\* registry entry, the worker and the manager entry of one run only, the run
\* whose processRun, worker start or deletion the step belongs to; those of
\* every other run stay as they are, whatever the interleaving.
C38_RunsAreIndependent ==
  [][\A q \in RunIds :
       (\/ StoreGet(runs', q) # StoreGet(runs, q)
        \/ wobj'[q] # wobj[q]
        \/ ManagerEntry(workers', q) # ManagerEntry(workers, q))
       => /\ (pc'[q] # pc[q] \/ wpc'[q] # wpc[q] \/ deletedIn'[q] # deletedIn[q])
          /\ \A p \in RunIds \ {q} :
               pc'[p] = pc[p] /\ wpc'[p] = wpc[p] /\ deletedIn'[p] = deletedIn[p]]_vars

\* A ready run has been deleted and its worker stopped, while another run is
\* ready with its worker running and held by the manager.
C38_Witness ==
  \E r, q \in RunIds :
    /\ r # q
    /\ deletedIn[r] = "ready"
    /\ TheWorker(r).status = "stopped"
    /\ Stored(q) /\ runs[q].status = "ready"
    /\ WorkerId(q) \in DOMAIN workers
    /\ TheWorker(q).status = "running"

====
